---------------------------- MODULE Spec2Model ----------------------------
(***************************************************************************)
(* Availability and booking consistency of the barber booking site.        *)
(*                                                                         *)
(*   - the Express server (src/server/services/smsService.js, the part     *)
(*     that follows the SMS helpers): the handlers of /api/availability    *)
(*     and /api/appointments over the two Supabase tables;                 *)
(*   - the booking page (src/js/script.js, class BookingSystem): its       *)
(*     cached availability and appointments and the slot resolver          *)
(*     getAvailableTimeSlots.                                              *)
(*                                                                         *)
(* Three specifications share the variables:                               *)
(*   Spec          requests handled one after the other (no overlap);      *)
(*   SpecRace      POST /api/appointments handlers interleaving at their   *)
(*                 awaits (one database call per step);                    *)
(*   SpecResolver  the slot resolver applied to the booking page's cache.  *)
(***************************************************************************)
EXTENDS Integers, Sequences, FiniteSets, TLC

\* ------------------------------------------------------------------ bounds

\* Most rows the appointments table holds (inserts stop there).
MaxAppts == 2

\* SpecRace: the POST /api/appointments requests in flight together.
MaxHandlers == 2

\* SpecResolver: the longest timeSlots list of a cached date, and the longest
\* cached list of appointments.
MaxSlots == 2
MaxExisting == 2

\* SpecStatus, SpecEditor: the most fetches of the admin page that are not
\* settled at one time.
MaxInFlight == 2

\* ------------------------------------------------------------------ data

\* Calendar dates, "YYYY-MM-DD".
Dates == {"2025-06-10", "2025-06-11"}

\* Times of day, zero-padded 24-hour "HH:MM".
Times == {"09:00", "09:45"}

\* Lexicographic order of zero-padded "HH:MM" strings is the numeric order of
\* HHMM; TimeKey gives the number the comparison of two such strings rests on.
TimeKey(t) == CASE t = "09:00" -> 900
                [] t = "09:45" -> 945
                [] OTHER -> 0

Statuses == {"pending", "accepted", "declined", "cancelled"}

\* The statuses that occupy a slot.
ActiveStatuses == {"pending", "accepted"}

\* The value of a request field that is missing (undefined / null).
Missing == "<missing>"

\* A body without a customer object.
NoCustomer == [name |-> Missing, email |-> Missing, phone |-> Missing]

\* Customer objects a request carries: complete, or with one field empty.
ValidCustomer == [name |-> "Ann", email |-> "ann@example.com", phone |-> "5550100"]

Customers ==
    { ValidCustomer,
      [ValidCustomer EXCEPT !.name = ""],
      [ValidCustomer EXCEPT !.email = ""],
      [ValidCustomer EXCEPT !.phone = ""] }

VARIABLES
    availabilityTbl,      \* table availability: date -> [time_ranges, is_closed]
    appointmentsTbl,      \* table appointments: sequence of rows, id = position
    lastReq,              \* the last request handled and the response sent
    handlers,             \* SpecRace: the in-flight POST /api/appointments handlers
    bookingAvailability,  \* BookingSystem.availability
    existingAppointments, \* BookingSystem.existingAppointments
    slotsResult,          \* the last call of getAvailableTimeSlots and its result
    adminAppointments,    \* AdminPanel.appointments: the status the panel shows, by id
    updatingAppointmentIds, \* AdminPanel.updatingAppointmentIds
    adminAvailability,    \* AdminPanel.availability
    isSavingAvailability, \* AdminPanel.isSavingAvailability
    storedAvailability,   \* localStorage item 'availability': <<>> or <<the object>>
    requests,             \* the fetches of the admin page that are not settled
    adminLast,            \* the last call of a method of the panel and what it did
    now,                  \* the clock of the server, in minutes since 2025-06-10 00:00
    reminders             \* the reminders sent: the ids, in the order of sending

vars == <<availabilityTbl, appointmentsTbl, lastReq, handlers,
          bookingAvailability, existingAppointments, slotsResult,
          adminAppointments, updatingAppointmentIds, adminAvailability,
          isSavingAvailability, storedAvailability, requests, adminLast,
          now, reminders>>

serverVars == <<availabilityTbl, appointmentsTbl, lastReq>>
bookingVars == <<bookingAvailability, existingAppointments, slotsResult>>
cronVars == <<now, reminders>>
statusVars == <<adminAppointments, updatingAppointmentIds>>
editorVars == <<adminAvailability, isSavingAvailability, storedAvailability>>
adminVars == <<statusVars, editorVars, requests, adminLast>>

\* The empty map (an object without keys).
EmptyMap == [d \in {} |-> 0]

NoRequest == [op |-> "none"]

\* ------------------------------------------------- POST /api/appointments

\* if (!customer || !customer.name || !customer.email || !customer.phone)
CustomerMissing(customer) ==
    \/ customer = NoCustomer
    \/ customer.name = ""
    \/ customer.email = ""
    \/ customer.phone = ""

\* The two checks of the body made before any database call; "" when it passes.
ValidationError(body) ==
    IF CustomerMissing(body.customer)
    THEN "Customer information is required"
    ELSE IF body.service = "" \/ body.date = "" \/ body.time = ""
         THEN "Service, date, and time are required"
         ELSE ""

\* from('availability').select('*').eq('date', date).single(), then the three
\* rejections on its result; "" when the date has a row that is not closed.
AvailabilityError(avail, date) ==
    IF date \notin DOMAIN avail
    THEN "This date is not available for booking"
    ELSE IF avail[date].is_closed
         THEN "This date is closed and not available for booking"
         ELSE ""

\* Mutant of ExistingBookings: the status filter is left out, so a declined or
\* cancelled row still counts as a booking of the slot.
ExistingBookingsAnyStatus(appts, date, time) ==
    { i \in 1..Len(appts) :
        /\ appts[i].date = date
        /\ appts[i].time = time }

\* from('appointments').select('id').eq('date').eq('time').in('status',
\* ['pending','accepted']): the ids of the rows found.
ExistingBookings(appts, date, time) ==
    { i \in 1..Len(appts) :
        /\ appts[i].date = date
        /\ appts[i].time = time
        /\ appts[i].status \in {"pending", "accepted"} }

\* if (existingBookings && existingBookings.length > 0)
SlotTakenError(appts, date, time) ==
    IF Cardinality(ExistingBookings(appts, date, time)) > 0
    THEN "This time slot is already booked"
    ELSE ""

\* The row built from the body (appointmentData), with the id the table gives it.
NewAppointment(appts, body) ==
    [ id       |-> Len(appts) + 1,
      customer |-> body.customer,
      service  |-> body.service,
      date     |-> body.date,
      time     |-> body.time,
      status   |-> "pending" ]

\* from('appointments').insert(appointmentData)
InsertAppointment(appts, body) == Append(appts, NewAppointment(appts, body))

\* Bodies of POST /api/appointments.
PostBodies ==
    [ customer : Customers \cup {NoCustomer},
      service  : {"Haircut", ""},
      date     : Dates,
      time     : Times ]

Rejected(op, body, code, error) ==
    [op |-> op, body |-> body, code |-> code, error |-> error,
     id |-> 0, sms |-> "none", smsOutcome |-> "none"]

\* What becomes of an SMS the handler asks for: sendSMS delivers it, returns
\* { success: false } because Twilio is not configured, or catches the error of
\* the Twilio call.
SmsOutcomes == {"sent", "notConfigured", "failed"}

\* Mutant of AfterSms: the handler waits for the SMS and answers 500 when it was
\* not sent.
AfterSmsAwaited(response, outcome) ==
    IF outcome = "sent"
    THEN [response EXCEPT !.smsOutcome = outcome]
    ELSE [response EXCEPT !.smsOutcome = outcome, !.code = 500,
                          !.error = "Internal server error"]

\* sendAppointment...(appointment).catch(err => ...): the call is not awaited
\* and its failure is only logged, so the response of the handler is the one it
\* had built (smsOutcome records what became of the SMS).
AfterSms(response, outcome) ==
    [response EXCEPT !.smsOutcome = outcome]

\* The first rejection of the handler for this body in this database state,
\* "" when the body gets as far as the insert.
PostRejection(avail, appts, body) ==
    IF ValidationError(body) # "" THEN ValidationError(body)
    ELSE IF AvailabilityError(avail, body.date) # ""
         THEN AvailabilityError(avail, body.date)
         ELSE SlotTakenError(appts, body.date, body.time)

\* The whole handler with no other request in between (the database calls
\* succeed).
PostAppointment(body) ==
    /\ PostRejection(availabilityTbl, appointmentsTbl, body) = ""
           => Len(appointmentsTbl) < MaxAppts
    /\ IF PostRejection(availabilityTbl, appointmentsTbl, body) # ""
       THEN /\ lastReq' = Rejected("POST /api/appointments", body, 400,
                              PostRejection(availabilityTbl, appointmentsTbl, body))
            /\ UNCHANGED appointmentsTbl
       ELSE /\ appointmentsTbl' = InsertAppointment(appointmentsTbl, body)
            /\ \E outcome \in SmsOutcomes :
                 lastReq' = AfterSms([op |-> "POST /api/appointments",
                                      body |-> body,
                                      code |-> 201, error |-> "",
                                      id |-> Len(appointmentsTbl) + 1,
                                      sms |-> "confirmation",
                                      smsOutcome |-> "none"], outcome)
    /\ UNCHANGED <<availabilityTbl, handlers, bookingVars, cronVars, adminVars>>

\* -------------------------------------------- PATCH /api/appointments/:id

\* The SMS helper the handler calls for the status of the body.
StatusSms(status) ==
    IF status \in {"accepted", "declined"} THEN "statusUpdate"
    ELSE IF status = "cancelled" THEN "cancellation"
         ELSE "none"

\* from('appointments').update(updateData).eq('id', appointmentId); the body of
\* the requests modelled is { status }. (The timestamp columns are not modelled:
\* the handler also sets updated_at to the current time.)
UpdateAppointment(appts, id, status) ==
    [appts EXCEPT ![id].status = status]

\* The whole handler: what it does to the table and what it answers. An id
\* without a row ends in 500 or 404 (which of the two depends on what single()
\* reports for no row).
PatchHandled(id, status) ==
    /\ IF id \in 1..Len(appointmentsTbl)
       THEN /\ appointmentsTbl' = UpdateAppointment(appointmentsTbl, id, status)
            /\ \E outcome \in IF StatusSms(status) = "none" THEN {"none"}
                                ELSE SmsOutcomes :
                 lastReq' = AfterSms([op |-> "PATCH /api/appointments/:id",
                                      body |-> [status |-> status],
                                      code |-> 200, error |-> "", id |-> id,
                                      sms |-> StatusSms(status),
                                      smsOutcome |-> "none",
                                      oldStatus |-> appointmentsTbl[id].status],
                                     outcome)
       ELSE /\ \E code \in {404, 500} :
                 lastReq' = [op |-> "PATCH /api/appointments/:id",
                             body |-> [status |-> status],
                             code |-> code,
                             error |-> IF code = 404 THEN "Appointment not found"
                                       ELSE "Failed to update appointment",
                             id |-> id, sms |-> "none",
                             smsOutcome |-> "none",
                             oldStatus |-> Missing]
            /\ UNCHANGED appointmentsTbl

\* A PATCH request handled with no other request in between.
PatchAppointment(id, status) ==
    /\ PatchHandled(id, status)
    /\ UNCHANGED <<availabilityTbl, handlers, bookingVars, cronVars, adminVars>>

\* ------------------------------------------------- POST /api/availability

\* The row the handler upserts for one date of the body (availabilityData).
AvailabilityRow(dayInfo) ==
    [time_ranges |-> dayInfo.timeSlots, is_closed |-> (dayInfo.closed = TRUE)]

\* The table after the upserts of the dates in saved.
UpsertDates(avail, body, saved) ==
    [d \in DOMAIN avail \cup saved |->
        IF d \in saved THEN AvailabilityRow(body[d]) ELSE avail[d]]

\* A row in the shape the API answers with.
DayResponse(row) ==
    [timeSlots |-> row.time_ranges, closed |-> row.is_closed,
     available |-> ~row.is_closed]

\* Bodies of POST /api/availability in Spec: one date each.
SlotLists == {<<"09:00">>, <<"09:00", "09:45">>}

AvailabilityBodies ==
    { [d \in {x} |-> [timeSlots |-> s, closed |-> c]] :
        x \in {"2025-06-10"}, s \in SlotLists, c \in BOOLEAN }

\* The errors array: one entry for each date whose upsert the database refused.
SaveErrors(failed) ==
    { [date |-> d, error |-> "upsert failed"] : d \in failed }

\* Mutant of SaveStatus: a partial failure is answered like a full success.
SaveStatusNoPartial(saved, failed) ==
    IF failed # {} /\ saved = {} THEN 500 ELSE 200

\* The status of the response from the results (saved) and the errors (failed):
\* 500 when errors.length > 0 && results.length === 0, 207 when errors.length >
\* 0, else 200.
SaveStatus(saved, failed) ==
    IF failed # {} /\ saved = {} THEN 500
    ELSE IF failed # {} THEN 207 ELSE 200

\* availabilityResponse: the rows the upserts returned, in the shape of the API.
SaveResponseMap(body, saved) ==
    [d \in saved |-> DayResponse(AvailabilityRow(body[d]))]

\* The whole handler, what it does to the table and what it answers; failed are
\* the dates whose upsert the database refuses. (The 500 response has no availability member and carries the errors as its
\* details: availability is then the empty map here.)
SaveHandled(body, failed) ==
    /\ failed \subseteq DOMAIN body
    /\ availabilityTbl' = UpsertDates(availabilityTbl, body, DOMAIN body \ failed)
    /\ lastReq' =
         [op |-> "POST /api/availability", body |-> body,
          failedDates |-> failed,
          code |-> SaveStatus(DOMAIN body \ failed, failed),
          errors |-> SaveErrors(failed),
          availability |->
              IF SaveStatus(DOMAIN body \ failed, failed) = 500 THEN EmptyMap
              ELSE SaveResponseMap(body, DOMAIN body \ failed)]

\* A POST /api/availability request handled with no other request in between.
PostAvailability(body, failed) ==
    /\ SaveHandled(body, failed)
    /\ UNCHANGED <<appointmentsTbl, handlers, bookingVars, cronVars, adminVars>>

\* ---------------------------------------------------------------- Spec

\* The admin panel as its constructor leaves it, with nothing in localStorage
\* and no fetch under way.
\* The server as it starts: the clock at midnight, no reminder sent.
ReminderJobNew ==
    /\ now = 0
    /\ reminders = <<>>

AdminPanelNew ==
    /\ adminAppointments = <<>>
    /\ updatingAppointmentIds = {}
    /\ adminAvailability = EmptyMap
    /\ isSavingAvailability = FALSE
    /\ storedAvailability = <<>>
    /\ requests = <<>>
    /\ adminLast = NoRequest

Init ==
    /\ availabilityTbl = EmptyMap
    /\ appointmentsTbl = <<>>
    /\ lastReq = NoRequest
    /\ handlers = EmptyMap
    /\ bookingAvailability = EmptyMap
    /\ existingAppointments = <<>>
    /\ slotsResult = NoRequest
    /\ AdminPanelNew
    /\ ReminderJobNew

Next ==
    \/ \E body \in PostBodies : PostAppointment(body)
    \/ \E id \in 1..MaxAppts, status \in Statuses : PatchAppointment(id, status)
    \/ \E body \in AvailabilityBodies, failed \in SUBSET Dates :
          PostAvailability(body, failed)

Spec == Init /\ [][Next]_vars

\* ------------------------------------------------------------ SpecSave
\* POST /api/availability alone, with bodies of any number of dates.

\* What a body holds for a date.
SaveDays == [timeSlots : SlotLists, closed : BOOLEAN]

\* Bodies of POST /api/availability: an object with any of the dates as keys
\* (the one without keys included).
SaveBodies == UNION { [ds -> SaveDays] : ds \in SUBSET Dates }

NextSave ==
    \E body \in SaveBodies, failed \in SUBSET Dates : PostAvailability(body, failed)

SpecSave == Init /\ [][NextSave]_vars

\* ------------------------------------------------------------ SpecRace
\* POST /api/appointments as it runs beside other requests: the handler gives
\* way at each await, so each of its three database calls is a step of its own
\* (the code between two awaits runs with the call that ends it).

HandlerIds == 1..MaxHandlers

IdleHandler == [pc |-> "idle"]

DoneHandler(body, code, error) ==
    [pc |-> "done", body |-> body, code |-> code, error |-> error]

\* Bodies of the racing requests.
RaceBodies ==
    [ customer : {ValidCustomer, [ValidCustomer EXCEPT !.phone = ""]},
      service  : {"Haircut"},
      date     : Dates,
      time     : Times ]

\* The request arrives: the body is validated and the availability row read.
RaceReceive(h, body) ==
    /\ handlers[h].pc = "idle"
    /\ handlers' =
         [handlers EXCEPT ![h] =
            IF ValidationError(body) # ""
            THEN DoneHandler(body, 400, ValidationError(body))
            ELSE IF AvailabilityError(availabilityTbl, body.date) # ""
                 THEN DoneHandler(body, 400,
                          AvailabilityError(availabilityTbl, body.date))
                 ELSE [pc |-> "checkExisting", body |-> body]]
    /\ UNCHANGED <<serverVars, bookingVars, cronVars, adminVars>>

\* The query for pending or accepted rows of the (date, time) runs.
RaceCheckExisting(h) ==
    /\ handlers[h].pc = "checkExisting"
    /\ handlers' =
         [handlers EXCEPT ![h] =
            IF SlotTakenError(appointmentsTbl, handlers[h].body.date,
                              handlers[h].body.time) # ""
            THEN DoneHandler(handlers[h].body, 400,
                     SlotTakenError(appointmentsTbl, handlers[h].body.date,
                                    handlers[h].body.time))
            ELSE [pc |-> "insert", body |-> handlers[h].body]]
    /\ UNCHANGED <<serverVars, bookingVars, cronVars, adminVars>>

\* The insert runs and the handler answers 201.
RaceInsert(h) ==
    /\ handlers[h].pc = "insert"
    /\ Len(appointmentsTbl) < MaxAppts
    /\ appointmentsTbl' = InsertAppointment(appointmentsTbl, handlers[h].body)
    /\ handlers' = [handlers EXCEPT ![h] = DoneHandler(handlers[h].body, 201, "")]
    /\ UNCHANGED <<availabilityTbl, lastReq, bookingVars, cronVars, adminVars>>

\* The database refuses the insert (whatever its reason, a constraint of the
\* table included): the handler answers 500.
RaceInsertRefused(h) ==
    /\ handlers[h].pc = "insert"
    /\ handlers' = [handlers EXCEPT ![h] =
                       DoneHandler(handlers[h].body, 500,
                                   "Failed to create appointment")]
    /\ UNCHANGED <<serverVars, bookingVars, cronVars, adminVars>>

InitRace ==
    /\ availabilityTbl = EmptyMap
    /\ appointmentsTbl = <<>>
    /\ lastReq = NoRequest
    /\ handlers = [h \in HandlerIds |-> IdleHandler]
    /\ bookingAvailability = EmptyMap
    /\ existingAppointments = <<>>
    /\ slotsResult = NoRequest
    /\ AdminPanelNew
    /\ ReminderJobNew

NextRace ==
    \/ \E body \in AvailabilityBodies : PostAvailability(body, {})
    \/ \E h \in HandlerIds, body \in RaceBodies : RaceReceive(h, body)
    \/ \E h \in HandlerIds : RaceCheckExisting(h)
    \/ \E h \in HandlerIds : RaceInsert(h)
    \/ \E h \in HandlerIds : RaceInsertRefused(h)

SpecRace == InitRace /\ [][NextRace]_vars

\* ---------------------------------------------------------- SpecUpsert
\* POST /api/availability as it runs beside other requests: the handler awaits
\* one upsert for each date of the body, in the order of Object.entries, and the
\* code after the last upsert (the response) runs with it. GET
\* /api/availability is one query.

\* The one POST /api/availability request in flight.
SaveHandlerIds == {1}

\* Bodies of the requests: the dates not closed.
UpsertBodies == { b \in SaveBodies : \A d \in DOMAIN b : ~b[d].closed }

\* Object.entries(availability): the dates of the body, each once, in the order
\* the object lists them.
EntryOrders(body) ==
    { q \in [1..Cardinality(DOMAIN body) -> DOMAIN body] :
        \A i, j \in DOMAIN q : q[i] = q[j] => i = j }

\* The response of the handler from its results and errors.
SaveDone(body, saved, failed) ==
    [pc |-> "done", body |-> body,
     code |-> SaveStatus(saved, failed),
     errors |-> SaveErrors(failed),
     availability |-> IF SaveStatus(saved, failed) = 500 THEN EmptyMap
                      ELSE SaveResponseMap(body, saved)]

\* The request arrives; a body without dates is answered at once. (before is
\* the table the request found: not a variable of the handler, it is kept for
\* the properties.)
SaveReceive(h, body, entries) ==
    /\ handlers[h].pc \in {"idle", "done"}
    /\ entries \in EntryOrders(body)
    /\ handlers' =
         [handlers EXCEPT ![h] =
            IF Len(entries) = 0
            THEN SaveDone(body, {}, {})
            ELSE [pc |-> "upsert", body |-> body, todo |-> entries,
                  saved |-> {}, failed |-> {}, before |-> availabilityTbl]]
    /\ UNCHANGED <<serverVars, bookingVars, cronVars, adminVars>>

\* The upsert of the next date runs: the database writes the row (ok) or
\* refuses it; after the last date the handler answers.
SaveUpsertNext(h, ok) ==
    /\ handlers[h].pc = "upsert"
    /\ LET cur    == handlers[h]
           d      == Head(cur.todo)
           saved  == IF ok THEN cur.saved \cup {d} ELSE cur.saved
           failed == IF ok THEN cur.failed ELSE cur.failed \cup {d}
       IN  /\ availabilityTbl' =
                 IF ok THEN UpsertDates(availabilityTbl, cur.body, {d})
                 ELSE availabilityTbl
           /\ handlers' =
                 [handlers EXCEPT ![h] =
                    IF Len(cur.todo) = 1
                    THEN SaveDone(cur.body, saved, failed)
                    ELSE [cur EXCEPT !.todo = Tail(cur.todo),
                                     !.saved = saved, !.failed = failed]]
    /\ UNCHANGED <<appointmentsTbl, lastReq, bookingVars, cronVars, adminVars>>

\* GET /api/availability without a date range: every row, in the shape of the
\* API. (during are the saves in flight when the query ran: kept for the
\* properties.)
GetAvailability ==
    /\ lastReq' = [op |-> "GET /api/availability", code |-> 200,
                   availability |-> [d \in DOMAIN availabilityTbl |->
                                        DayResponse(availabilityTbl[d])],
                   during |-> handlers]
    /\ UNCHANGED <<availabilityTbl, appointmentsTbl, handlers, bookingVars, cronVars, adminVars>>

InitUpsert ==
    /\ availabilityTbl = EmptyMap
    /\ appointmentsTbl = <<>>
    /\ lastReq = NoRequest
    /\ handlers = [h \in SaveHandlerIds |-> IdleHandler]
    /\ bookingAvailability = EmptyMap
    /\ existingAppointments = <<>>
    /\ slotsResult = NoRequest
    /\ AdminPanelNew
    /\ ReminderJobNew

NextUpsert ==
    \/ \E h \in SaveHandlerIds, body \in UpsertBodies :
          \E entries \in EntryOrders(body) : SaveReceive(h, body, entries)
    \/ \E h \in SaveHandlerIds, ok \in BOOLEAN : SaveUpsertNext(h, ok)
    \/ GetAvailability

SpecUpsert == InitUpsert /\ [][NextUpsert]_vars

\* -------------------------------------------------------- SpecResolver
\* BookingSystem (src/js/script.js): the slot resolver over the page's cache.

\* Mutant of isTimeSlotBooked: the status test is left out.
isTimeSlotBookedAnyStatus(existing, dateStr, timeStr) ==
    \E i \in 1..Len(existing) :
        /\ existing[i].date = dateStr
        /\ existing[i].time = timeStr

\* isTimeSlotBooked(dateStr, timeStr) over this.existingAppointments.
isTimeSlotBooked(existing, dateStr, timeStr) ==
    \E i \in 1..Len(existing) :
        /\ existing[i].date = dateStr
        /\ existing[i].time = timeStr
        /\ (existing[i].status = "pending" \/ existing[i].status = "accepted")

\* Mutant of getAvailableTimeSlots: the closed flag is not looked at.
getAvailableTimeSlotsIgnoringClosed(availability, existing, dateStr) ==
    IF dateStr \notin DOMAIN availability
    THEN <<>>
    ELSE LET allSlots == availability[dateStr].timeSlots
             keep(slot) == ~isTimeSlotBooked(existing, dateStr, slot)
         IN  SelectSeq(allSlots, keep)

\* getAvailableTimeSlots(dateStr) over this.availability and
\* this.existingAppointments.
getAvailableTimeSlots(availability, existing, dateStr) ==
    IF dateStr \notin DOMAIN availability
    THEN <<>>
    ELSE IF availability[dateStr].closed = TRUE
         THEN <<>>
         ELSE LET allSlots == availability[dateStr].timeSlots
                  keep(slot) == ~isTimeSlotBooked(existing, dateStr, slot)
              IN  SelectSeq(allSlots, keep)

\* The sequences over S of length at most n.
SeqsUpTo(S, n) == UNION { [1..k -> S] : k \in 0..n }

\* What the page may hold for a date: any array of times the server stored
\* (POST /api/availability stores the posted array as it is, GET returns it as
\* stored), closed or not.
CachedDays ==
    { [timeSlots |-> s, closed |-> c, available |-> ~c] :
        s \in SeqsUpTo(Times, MaxSlots), c \in BOOLEAN }

\* The page's availability: the first date cached or not, the second never.
CachedAvailabilities ==
    {EmptyMap} \cup { [d \in {"2025-06-10"} |-> day] : day \in CachedDays }

\* The page's appointments: entries of any status (the fallback list read from
\* localStorage is not filtered).
CachedAppointments ==
    SeqsUpTo([date : Dates, time : Times, status : Statuses], MaxExisting)

InitResolver ==
    /\ availabilityTbl = EmptyMap
    /\ appointmentsTbl = <<>>
    /\ lastReq = NoRequest
    /\ handlers = EmptyMap
    /\ bookingAvailability \in CachedAvailabilities
    /\ existingAppointments \in CachedAppointments
    /\ slotsResult = NoRequest
    /\ AdminPanelNew
    /\ ReminderJobNew

\* A call of getAvailableTimeSlots(dateStr).
GetAvailableTimeSlots(dateStr) ==
    /\ slotsResult' =
         [op |-> "getAvailableTimeSlots", date |-> dateStr,
          result |-> getAvailableTimeSlots(bookingAvailability,
                                           existingAppointments, dateStr)]
    /\ UNCHANGED <<serverVars, handlers, cronVars, bookingAvailability, existingAppointments,
                   adminVars>>

NextResolver == \E dateStr \in Dates : GetAvailableTimeSlots(dateStr)

SpecResolver == InitResolver /\ [][NextResolver]_vars

\* ---------------------------------------------------------- SpecStatus
\* AdminPanel (src/js/admin.js): the status changes of one admin page. A method
\* that awaits a fetch is two steps: the call up to the fetch, and the rest once
\* the fetch is settled; between them the server handles the request, or the
\* fetch fails.

\* seq without its k-th member.
RemoveAt(seq, k) == SubSeq(seq, 1, k - 1) \o SubSeq(seq, k + 1, Len(seq))

\* The appointments table with one pending booking (as a POST
\* /api/appointments request leaves it).
BookedTable ==
    InsertAppointment(<<>>, [customer |-> ValidCustomer, service |-> "Haircut",
                             date |-> "2025-06-10", time |-> "09:00"])

\* fetch(`/api/appointments/${id}`, { method: 'PATCH', body: { status } }) as
\* the method via sends it; oldStatus is the local of updateAppointmentStatus
\* (cancelAppointment has none). The method holds the object it found in
\* this.appointments; detached says that this.appointments has since been
\* replaced by another array, so that the object is no member of it.
PatchRequest(id, status, via, oldStatus) ==
    [url |-> "PATCH /api/appointments/:id", id |-> id, status |-> status,
     via |-> via, oldStatus |-> oldStatus, answer |-> "none",
     detached |-> FALSE]

\* fetch('/api/appointments') of loadAppointments.
ListRequest ==
    [url |-> "GET /api/appointments", answer |-> "none", rows |-> <<>>,
     detached |-> FALSE]

\* this.isLoadingAppointments: set before the fetch of loadAppointments,
\* cleared in its finally.
isLoadingAppointments ==
    \E k \in 1..Len(requests) : requests[k].url = "GET /api/appointments"

\* The ids a method of the panel is called with: that of the booking and one
\* that no appointment has.
PanelIds == 1..(Len(BookedTable) + 1)

\* What a call did: returned without a fetch, or sent one.
Returned(op, id, status, sent) ==
    [op |-> op, id |-> id, status |-> status, sent |-> sent]

\* updateAppointmentStatus(id, status) up to its fetch.
UpdateAppointmentStatus(id, status) ==
    IF id \in updatingAppointmentIds
    THEN /\ adminLast' = Returned("updateAppointmentStatus", id, status, FALSE)
         /\ UNCHANGED <<statusVars, requests>>
    ELSE IF id \notin 1..Len(adminAppointments)
    THEN /\ adminLast' = Returned("updateAppointmentStatus", id, status, FALSE)
         /\ UNCHANGED <<statusVars, requests>>
    ELSE IF adminAppointments[id].status = status
    THEN /\ adminLast' = Returned("updateAppointmentStatus", id, status, FALSE)
         /\ UNCHANGED <<statusVars, requests>>
    ELSE /\ Len(requests) < MaxInFlight
         /\ adminAppointments' = [adminAppointments EXCEPT ![id].status = status]
         /\ updatingAppointmentIds' = updatingAppointmentIds \cup {id}
         /\ requests' = Append(requests,
                PatchRequest(id, status, "updateAppointmentStatus",
                             adminAppointments[id].status))
         /\ adminLast' = Returned("updateAppointmentStatus", id, status, TRUE)

\* acceptAppointment(id)
AcceptAppointment(id) ==
    /\ IF id \in updatingAppointmentIds
       THEN /\ adminLast' = Returned("acceptAppointment", id, "accepted", FALSE)
            /\ UNCHANGED <<statusVars, requests>>
       ELSE UpdateAppointmentStatus(id, "accepted")
    /\ UNCHANGED <<serverVars, handlers, bookingVars, cronVars, editorVars>>

\* declineAppointment(id)
DeclineAppointment(id) ==
    /\ IF id \in updatingAppointmentIds
       THEN /\ adminLast' = Returned("declineAppointment", id, "declined", FALSE)
            /\ UNCHANGED <<statusVars, requests>>
       ELSE UpdateAppointmentStatus(id, "declined")
    /\ UNCHANGED <<serverVars, handlers, bookingVars, cronVars, editorVars>>

\* cancelAppointment(id) up to its fetch (the confirm dialog answered yes).
CancelAppointment(id) ==
    /\ IF id \notin 1..Len(adminAppointments)
       THEN /\ adminLast' = Returned("cancelAppointment", id, "cancelled", FALSE)
            /\ UNCHANGED requests
       ELSE /\ Len(requests) < MaxInFlight
            /\ requests' = Append(requests,
                   PatchRequest(id, "cancelled", "cancelAppointment", Missing))
            /\ adminLast' = Returned("cancelAppointment", id, "cancelled", TRUE)
    /\ UNCHANGED <<serverVars, handlers, bookingVars, cronVars, statusVars, editorVars>>

\* The server handles the k-th fetch, a PATCH, and answers it.
ServerPatch(k) ==
    /\ k \in 1..Len(requests)
    /\ requests[k].url = "PATCH /api/appointments/:id"
    /\ requests[k].answer = "none"
    /\ PatchHandled(requests[k].id, requests[k].status)
    /\ requests' = [requests EXCEPT ![k].answer =
                       IF lastReq'.code = 200 THEN "ok" ELSE "error"]
    /\ UNCHANGED <<availabilityTbl, handlers, bookingVars, cronVars, statusVars,
                   editorVars, adminLast>>

\* The k-th fetch, one that changes something, fails before it reaches the
\* server (no connection).
FetchFails(k) ==
    /\ k \in 1..Len(requests)
    /\ requests[k].url # "GET /api/appointments"
    /\ requests[k].answer = "none"
    /\ requests' = [requests EXCEPT ![k].answer = "error"]
    /\ UNCHANGED <<serverVars, handlers, bookingVars, cronVars, statusVars, editorVars,
                   adminLast>>

\* updateAppointmentStatus after its fetch: the status of the answer is
\* written to the member of this.appointments with the id, found anew; or the
\* old status is written to the object found before the fetch. The id leaves
\* the in-flight set.
UpdateAppointmentStatusSettles(k) ==
    /\ k \in 1..Len(requests)
    /\ requests[k].url = "PATCH /api/appointments/:id"
    /\ requests[k].via = "updateAppointmentStatus"
    /\ requests[k].answer # "none"
    /\ adminAppointments' =
         IF requests[k].answer = "ok"
         THEN [adminAppointments EXCEPT ![requests[k].id].status =
                                            requests[k].status]
         ELSE IF requests[k].detached
         THEN adminAppointments
         ELSE [adminAppointments EXCEPT ![requests[k].id].status =
                                            requests[k].oldStatus]
    /\ updatingAppointmentIds' = updatingAppointmentIds \ {requests[k].id}
    /\ requests' = RemoveAt(requests, k)
    /\ UNCHANGED <<serverVars, handlers, bookingVars, cronVars, editorVars, adminLast>>

\* cancelAppointment after its fetch.
CancelAppointmentSettles(k) ==
    /\ k \in 1..Len(requests)
    /\ requests[k].url = "PATCH /api/appointments/:id"
    /\ requests[k].via = "cancelAppointment"
    /\ requests[k].answer # "none"
    /\ adminAppointments' =
         IF requests[k].answer = "ok" /\ ~requests[k].detached
         THEN [adminAppointments EXCEPT ![requests[k].id].status = "cancelled"]
         ELSE adminAppointments
    /\ requests' = RemoveAt(requests, k)
    /\ UNCHANGED <<serverVars, handlers, bookingVars, cronVars, updatingAppointmentIds,
                   editorVars, adminLast>>

\* refreshAppointments() up to the fetch of loadAppointments: it returns at
\* once while a status change is under way or a load is.
RefreshAppointments ==
    /\ updatingAppointmentIds = {}
    /\ ~isLoadingAppointments
    /\ Len(requests) < MaxInFlight
    /\ requests' = Append(requests, ListRequest)
    /\ UNCHANGED <<serverVars, handlers, bookingVars, cronVars, statusVars, editorVars,
                   adminLast>>

\* The server handles the k-th fetch, a GET /api/appointments, and answers with
\* the rows of the table.
ServerGetAppointments(k) ==
    /\ k \in 1..Len(requests)
    /\ requests[k].url = "GET /api/appointments"
    /\ requests[k].answer = "none"
    /\ requests' = [requests EXCEPT ![k].answer = "ok",
                                    ![k].rows = appointmentsTbl]
    /\ UNCHANGED <<serverVars, handlers, bookingVars, cronVars, statusVars, editorVars,
                   adminLast>>

\* Mutant of hasChanged: only the counts are compared.
hasChangedCount(current, previous) ==
    Len(current) # Len(previous)

\* hasChanged of refreshAppointments: another count, or at some index another
\* id, status or customer.
hasChanged(current, previous) ==
    \/ Len(current) # Len(previous)
    \/ \E idx \in 1..Len(current) :
          \/ current[idx].id # previous[idx].id
          \/ current[idx].status # previous[idx].status
          \/ current[idx].customer # previous[idx].customer

\* refreshAppointments after the fetch of loadAppointments: the rows replace
\* this.appointments when they differ from it; updatingAppointmentIds is not
\* read again. The objects the methods in flight hold are then no members of
\* this.appointments.
RefreshAppointmentsSettles(k) ==
    /\ k \in 1..Len(requests)
    /\ requests[k].url = "GET /api/appointments"
    /\ requests[k].answer = "ok"
    /\ IF hasChanged(requests[k].rows, adminAppointments)
       THEN /\ adminAppointments' = requests[k].rows
            /\ requests' =
                 RemoveAt([j \in 1..Len(requests) |->
                             [requests[j] EXCEPT !.detached = TRUE]], k)
       ELSE /\ requests' = RemoveAt(requests, k)
            /\ UNCHANGED adminAppointments
    /\ UNCHANGED <<serverVars, handlers, bookingVars, cronVars, updatingAppointmentIds,
                   editorVars, adminLast>>

\* Another client (a second admin page) changes the status of the booking: the
\* server handles its PATCH.
OtherSessionPatch(status) ==
    /\ appointmentsTbl' = UpdateAppointment(appointmentsTbl, 1, status)
    /\ UNCHANGED <<availabilityTbl, lastReq, handlers, bookingVars, cronVars, adminVars>>

\* The page has loaded the booking of the table.
InitStatus ==
    /\ availabilityTbl =
         [d \in {"2025-06-10"} |->
            [time_ranges |-> <<"09:00", "09:45">>, is_closed |-> FALSE]]
    /\ appointmentsTbl = BookedTable
    /\ lastReq = NoRequest
    /\ handlers = EmptyMap
    /\ bookingAvailability = EmptyMap
    /\ existingAppointments = <<>>
    /\ slotsResult = NoRequest
    /\ adminAppointments = BookedTable
    /\ updatingAppointmentIds = {}
    /\ adminAvailability = EmptyMap
    /\ isSavingAvailability = FALSE
    /\ storedAvailability = <<>>
    /\ requests = <<>>
    /\ adminLast = NoRequest
    /\ ReminderJobNew

NextStatus ==
    \/ \E id \in PanelIds : AcceptAppointment(id)
    \/ \E id \in PanelIds : DeclineAppointment(id)
    \/ \E id \in PanelIds : CancelAppointment(id)
    \/ \E k \in 1..MaxInFlight : ServerPatch(k)
    \/ \E k \in 1..MaxInFlight : FetchFails(k)
    \/ \E k \in 1..MaxInFlight : UpdateAppointmentStatusSettles(k)
    \/ \E k \in 1..MaxInFlight : CancelAppointmentSettles(k)
    \/ RefreshAppointments
    \/ \E k \in 1..MaxInFlight : ServerGetAppointments(k)
    \/ \E k \in 1..MaxInFlight : RefreshAppointmentsSettles(k)
    \/ \E status \in Statuses : OtherSessionPatch(status)

SpecStatus == InitStatus /\ [][NextStatus]_vars

\* --------------------------------------------------------- SpecPolling
\* The admin page polling: setupAutoRefresh calls refreshAppointments every 5
\* seconds, so a refresh that can start does start; the server answers every
\* GET /api/appointments it is sent, and the page takes the answer.

NextPolling ==
    \/ AcceptAppointment(1)
    \/ CancelAppointment(1)
    \/ \E k \in 1..MaxInFlight : ServerPatch(k)
    \/ \E k \in 1..MaxInFlight : FetchFails(k)
    \/ \E k \in 1..MaxInFlight : UpdateAppointmentStatusSettles(k)
    \/ \E k \in 1..MaxInFlight : CancelAppointmentSettles(k)
    \/ RefreshAppointments
    \/ \E k \in 1..MaxInFlight : ServerGetAppointments(k)
    \/ \E k \in 1..MaxInFlight : RefreshAppointmentsSettles(k)
    \/ OtherSessionPatch("declined")

SpecPolling ==
    /\ InitStatus
    /\ [][NextPolling]_vars
    /\ WF_vars(RefreshAppointments)
    /\ WF_vars(\E k \in 1..MaxInFlight : ServerGetAppointments(k))
    /\ WF_vars(\E k \in 1..MaxInFlight : RefreshAppointmentsSettles(k))

\* ---------------------------------------------------------- SpecEditor
\* AdminPanel (src/js/admin.js): the availability editor of one admin page, its
\* saves and the server's POST /api/availability handler. In SpecEditor the
\* server saves every date it is sent; saves that fail, in whole or in part, are
\* those of SpecSaving.

\* The day the page runs on, and the dates the methods are called with: those
\* of Dates and one before today.
Today == "2025-06-10"
PastDate == "2025-06-09"
EditorDates == Dates \cup {PastDate}

\* The order of the dates (the comparison of the Date objects built from them).
DateKey(d) == CASE d = "2025-06-09" -> 1
                [] d = "2025-06-10" -> 2
                [] d = "2025-06-11" -> 3
                [] OTHER -> 0

\* this.availability[dateStr] || { available: true, timeSlots: [] }
DayOf(avail, d) ==
    IF d \in DOMAIN avail THEN avail[d]
    ELSE [available |-> TRUE, timeSlots |-> <<>>, closed |-> FALSE]

\* timeSlots.includes(t)
Includes(timeSlots, t) == \E i \in 1..Len(timeSlots) : timeSlots[i] = t

\* this.availability[d] = day
SetDay(avail, d, day) ==
    [x \in DOMAIN avail \cup {d} |-> IF x = d THEN day ELSE avail[x]]

\* delete this.availability[d]
DeleteDay(avail, d) == [x \in DOMAIN avail \ {d} |-> avail[x]]

\* Mutant of SortTimes: the list is left as it is.
SortTimesNot(timeSlots) == timeSlots

\* timeSlots.sort(): ascending in the order of the strings, which for "HH:MM" is
\* the order of TimeKey.
RECURSIVE SortTimes(_)
SortTimes(timeSlots) ==
    IF timeSlots = <<>> THEN <<>>
    ELSE LET t      == timeSlots[Len(timeSlots)]
             sorted == SortTimes(SubSeq(timeSlots, 1, Len(timeSlots) - 1))
             k      == Cardinality({ i \in 1..Len(sorted) :
                                      TimeKey(sorted[i]) <= TimeKey(t) })
         IN  SubSeq(sorted, 1, k) \o <<t>> \o SubSeq(sorted, k + 1, Len(sorted))

\* { available: true, timeSlots }: the record confirmAddTimeSlot and
\* removeTimeSlot write. It has no closed member, which every reader takes as
\* not closed (closed === true is false): closed is FALSE here.
EditedDay(timeSlots) ==
    [available |-> TRUE, timeSlots |-> timeSlots, closed |-> FALSE]

\* The availability after confirmAddTimeSlot for date d with the time t.
AddTimeSlot(avail, d, t) ==
    IF Includes(DayOf(avail, d).timeSlots, t)
    THEN avail
    ELSE SetDay(avail, d,
                EditedDay(SortTimes(Append(DayOf(avail, d).timeSlots, t))))

\* The availability after removeTimeSlot(d, t).
RemoveSlot(avail, d, t) ==
    LET keep(slot) == slot # t
        timeSlots  == SelectSeq(DayOf(avail, d).timeSlots, keep)
    IN  IF Len(timeSlots) = 0
        THEN DeleteDay(avail, d)
        ELSE SetDay(avail, d, EditedDay(timeSlots))

\* Mutant of CopyRejection: a target that is the source is not looked for.
CopyRejectionSameDayAllowed(avail, source, targets) ==
    IF targets = {}
    THEN "Please select at least one day to copy to."
    ELSE IF \E d \in targets : DateKey(d) < DateKey(Today)
    THEN "Cannot copy to past dates."
    ELSE IF source \notin DOMAIN avail \/ Len(avail[source].timeSlots) = 0
    THEN "No time slots to copy from this day."
    ELSE ""

\* The checks of copyTimeSlots in their order: the message shown, "" when the
\* copy goes on.
CopyRejection(avail, source, targets) ==
    IF targets = {}
    THEN "Please select at least one day to copy to."
    ELSE IF \E d \in targets : DateKey(d) < DateKey(Today)
    THEN "Cannot copy to past dates."
    ELSE IF source \in targets
    THEN "Cannot copy to the same day."
    ELSE IF source \notin DOMAIN avail \/ Len(avail[source].timeSlots) = 0
    THEN "No time slots to copy from this day."
    ELSE ""

\* Mutant of CopySlots: the slots of the source are added to those the target
\* has, and the target keeps its closed flag.
CopySlotsMerged(avail, source, targets) ==
    [x \in DOMAIN avail \cup targets |->
        IF x \in targets
        THEN [available |-> TRUE,
              timeSlots |-> SortTimes(DayOf(avail, x).timeSlots \o
                               SelectSeq(avail[source].timeSlots,
                                  LAMBDA t : ~Includes(DayOf(avail, x).timeSlots, t))),
              closed |-> DayOf(avail, x).closed]
        ELSE avail[x]]

\* selectedDays.forEach(targetDateStr => this.availability[targetDateStr] =
\* { available: true, timeSlots: [...timeSlotsToCopy], closed: false })
CopySlots(avail, source, targets) ==
    [x \in DOMAIN avail \cup targets |->
        IF x \in targets
        THEN [available |-> TRUE, timeSlots |-> avail[source].timeSlots,
              closed |-> FALSE]
        ELSE avail[x]]

\* What saveDayAvailability(d) leaves of the availability before it saves: a
\* date with no slots that is not closed is deleted.
PrunedDay(avail, d) ==
    IF d \in DOMAIN avail /\ avail[d].closed = TRUE
    THEN avail
    ELSE IF d \notin DOMAIN avail \/ Len(avail[d].timeSlots) = 0
         THEN DeleteDay(avail, d)
         ELSE avail

NoResponse == [code |-> 0, availability |-> EmptyMap, errors |-> {}]

\* fetch('/api/availability', { method: 'POST', body: { availability } }) sent
\* by saveAvailability for its caller, or by checkAndSync.
SaveRequest(body, caller) ==
    [url |-> "POST /api/availability", body |-> body, caller |-> caller,
     answer |-> "none", response |-> NoResponse]

SaveInProgress == "Save already in progress. Please wait..."

\* confirmAddTimeSlot() for the date d of the modal and the time t chosen.
ConfirmAddTimeSlot(d, t) ==
    /\ adminAvailability' = AddTimeSlot(adminAvailability, d, t)
    /\ adminLast' = [op |-> "confirmAddTimeSlot",
                     rejected |-> Includes(DayOf(adminAvailability, d).timeSlots, t)]
    /\ UNCHANGED <<serverVars, handlers, bookingVars, cronVars, statusVars,
                   isSavingAvailability, storedAvailability, requests>>

\* removeTimeSlot(d, t)
RemoveTimeSlot(d, t) ==
    /\ adminAvailability' = RemoveSlot(adminAvailability, d, t)
    /\ adminLast' = [op |-> "removeTimeSlot"]
    /\ UNCHANGED <<serverVars, handlers, bookingVars, cronVars, statusVars,
                   isSavingAvailability, storedAvailability, requests>>

\* What a call of copyTimeSlots did: the message it showed and whether it sent
\* a save.
CopyCalled(rejected, sent) ==
    [op |-> "copyTimeSlots", phase |-> "call", rejected |-> rejected,
     sent |-> sent]

\* copyTimeSlots(source) with the days of targets ticked, up to the fetch of
\* saveAvailability.
CopyTimeSlots(source, targets) ==
    /\ IF CopyRejection(adminAvailability, source, targets) # ""
       THEN /\ adminLast' = CopyCalled(
                     CopyRejection(adminAvailability, source, targets), FALSE)
            /\ UNCHANGED <<editorVars, requests>>
       ELSE IF isSavingAvailability
       THEN /\ adminLast' = CopyCalled(SaveInProgress, FALSE)
            /\ UNCHANGED <<editorVars, requests>>
       ELSE /\ Len(requests) < MaxInFlight
            /\ adminAvailability' = CopySlots(adminAvailability, source, targets)
            /\ isSavingAvailability' = TRUE
            /\ requests' = Append(requests,
                   SaveRequest(CopySlots(adminAvailability, source, targets),
                               [op |-> "copyTimeSlots", source |-> source,
                                targets |-> targets]))
            /\ adminLast' = CopyCalled("", TRUE)
            /\ UNCHANGED storedAvailability
    /\ UNCHANGED <<serverVars, handlers, bookingVars, cronVars, statusVars>>

\* saveDayAvailability(d) up to the fetch of saveAvailability.
SaveDayAvailability(d) ==
    /\ IF isSavingAvailability
       THEN /\ adminLast' = [op |-> "saveDayAvailability", phase |-> "call",
                             rejected |-> SaveInProgress, sent |-> FALSE]
            /\ UNCHANGED <<editorVars, requests>>
       ELSE /\ Len(requests) < MaxInFlight
            /\ adminAvailability' = PrunedDay(adminAvailability, d)
            /\ isSavingAvailability' = TRUE
            /\ requests' = Append(requests,
                   SaveRequest(PrunedDay(adminAvailability, d),
                               [op |-> "saveDayAvailability", date |-> d]))
            /\ adminLast' = [op |-> "saveDayAvailability", phase |-> "call",
                             rejected |-> "", sent |-> TRUE]
            /\ UNCHANGED storedAvailability
    /\ UNCHANGED <<serverVars, handlers, bookingVars, cronVars, statusVars>>

\* The server handles the k-th fetch, a POST /api/availability, and answers it;
\* failed are the dates whose upsert the database refuses. (The answer goes to
\* the fetch; lastReq is not kept in this specification.)
ServerSave(k, failed) ==
    /\ k \in 1..Len(requests)
    /\ requests[k].url = "POST /api/availability"
    /\ requests[k].answer = "none"
    /\ failed \subseteq DOMAIN requests[k].body
    /\ LET body  == requests[k].body
           saved == DOMAIN body \ failed
       IN  /\ availabilityTbl' = UpsertDates(availabilityTbl, body, saved)
           /\ requests' =
                [requests EXCEPT
                   ![k].answer = IF SaveStatus(saved, failed) = 500
                                 THEN "error" ELSE "ok",
                   ![k].response =
                       [code |-> SaveStatus(saved, failed),
                        availability |->
                            IF SaveStatus(saved, failed) = 500 THEN EmptyMap
                            ELSE SaveResponseMap(body, saved),
                        errors |-> SaveErrors(failed)]]
    /\ UNCHANGED <<appointmentsTbl, lastReq, handlers, bookingVars, cronVars, statusVars,
                   editorVars, adminLast>>

\* The result saveAvailability returns on response.ok: { success: true,
\* message: `Availability saved successfully for ${savedCount} date(s)!` }.
SaveSucceeded(response) ==
    [success |-> TRUE, message |-> "Availability saved successfully",
     savedCount |-> Cardinality(DOMAIN response.availability)]

\* The result saveAvailability returns from its catch.
SaveFailed ==
    [success |-> FALSE, message |-> "Failed to save availability",
     savedCount |-> 0]

\* saveAvailability after its fetch, and with it the rest of the method that
\* awaited it (which only shows the message of the result). On response.ok the
\* availability of the answer replaces this.availability; else the object that
\* was passed, which is this.availability itself, is written to localStorage.
SaveAvailabilitySettles(k) ==
    /\ k \in 1..Len(requests)
    /\ requests[k].url = "POST /api/availability"
    /\ requests[k].caller.op \in {"copyTimeSlots", "saveDayAvailability"}
    /\ requests[k].answer # "none"
    /\ IF requests[k].answer = "ok"
       THEN /\ adminAvailability' = requests[k].response.availability
            /\ UNCHANGED storedAvailability
       ELSE /\ storedAvailability' = <<adminAvailability>>
            /\ UNCHANGED adminAvailability
    /\ isSavingAvailability' = FALSE
    /\ adminLast' = [op |-> requests[k].caller.op, phase |-> "done",
                     caller |-> requests[k].caller,
                     code |-> requests[k].response.code,
                     errors |-> requests[k].response.errors,
                     result |-> IF requests[k].answer = "ok"
                                THEN SaveSucceeded(requests[k].response)
                                ELSE SaveFailed]
    /\ requests' = RemoveAt(requests, k)
    /\ UNCHANGED <<serverVars, handlers, bookingVars, cronVars, statusVars>>

\* The availability table as the page finds it: empty, or with the first date
\* open or closed.
EditorTables ==
    { EmptyMap,
      [d \in {"2025-06-10"} |-> [time_ranges |-> <<"09:45">>, is_closed |-> FALSE]],
      [d \in {"2025-06-10"} |-> [time_ranges |-> <<"09:00">>, is_closed |-> TRUE]] }

\* The page after its first fetchAvailability.
InitEditor ==
    /\ availabilityTbl \in EditorTables
    /\ appointmentsTbl = <<>>
    /\ lastReq = NoRequest
    /\ handlers = EmptyMap
    /\ bookingAvailability = EmptyMap
    /\ existingAppointments = <<>>
    /\ slotsResult = NoRequest
    /\ adminAppointments = <<>>
    /\ updatingAppointmentIds = {}
    /\ adminAvailability =
         [d \in DOMAIN availabilityTbl |-> DayResponse(availabilityTbl[d])]
    /\ isSavingAvailability = FALSE
    /\ storedAvailability = <<>>
    /\ requests = <<>>
    /\ adminLast = NoRequest
    /\ ReminderJobNew

NextEditor ==
    \/ \E d \in Dates, t \in Times : ConfirmAddTimeSlot(d, t)
    \/ \E d \in Dates, t \in Times : RemoveTimeSlot(d, t)
    \/ \E source \in Dates, targets \in SUBSET EditorDates :
          CopyTimeSlots(source, targets)
    \/ \E d \in Dates : SaveDayAvailability(d)
    \/ \E k \in 1..MaxInFlight : ServerSave(k, {})
    \/ \E k \in 1..MaxInFlight : SaveAvailabilitySettles(k)

SpecEditor == InitEditor /\ [][NextEditor]_vars

\* ---------------------------------------------- saves that fail, and the sync

\* checkAndSync of setupServerReconnectionSync, every 30 seconds and when the
\* browser comes online: the availability kept in localStorage, when there is
\* one, is posted. isSavingAvailability is neither read nor written.
CheckAndSync ==
    /\ storedAvailability # <<>>
    /\ Len(requests) < MaxInFlight
    /\ requests' = Append(requests,
           SaveRequest(storedAvailability[1], [op |-> "checkAndSync"]))
    /\ UNCHANGED <<serverVars, handlers, bookingVars, cronVars, statusVars, editorVars,
                   adminLast>>

\* checkAndSync after its fetch: the answer is dropped, localStorage keeps the
\* availability.
CheckAndSyncSettles(k) ==
    /\ k \in 1..Len(requests)
    /\ requests[k].url = "POST /api/availability"
    /\ requests[k].caller.op = "checkAndSync"
    /\ requests[k].answer # "none"
    /\ requests' = RemoveAt(requests, k)
    /\ UNCHANGED <<serverVars, handlers, bookingVars, cronVars, statusVars, editorVars,
                   adminLast>>

\* The time the page adds in SpecSaving.
SavingTime == "09:00"

NextSaving ==
    \/ \E d \in Dates : ConfirmAddTimeSlot(d, SavingTime)
    \/ \E d \in Dates : SaveDayAvailability(d)
    \/ \E k \in 1..MaxInFlight, failed \in SUBSET Dates : ServerSave(k, failed)
    \/ \E k \in 1..MaxInFlight : FetchFails(k)
    \/ \E k \in 1..MaxInFlight : SaveAvailabilitySettles(k)
    \/ CheckAndSync
    \/ \E k \in 1..MaxInFlight : CheckAndSyncSettles(k)

\* The page after its first fetchAvailability, of an empty table.
InitSaving ==
    /\ InitEditor
    /\ availabilityTbl = EmptyMap

SpecSaving == InitSaving /\ [][NextSaving]_vars

\* ------------------------------------------------- SpecFetch: fetchAvailability
\* The availability tab of the admin page is opened again (switchTab), or the
\* browser comes online: fetchAvailability runs while the page holds an
\* availability.

\* fetch('/api/availability') of fetchAvailability.
FetchRequest ==
    [url |-> "GET /api/availability", body |-> EmptyMap,
     caller |-> [op |-> "fetchAvailability"], answer |-> "none",
     response |-> NoResponse]

\* this.isLoadingAvailability: set before the fetch, cleared in the finally.
isLoadingAvailability ==
    \E k \in 1..Len(requests) : requests[k].url = "GET /api/availability"

\* fetchAvailability() up to its fetch.
FetchAvailability ==
    /\ ~isLoadingAvailability
    /\ Len(requests) < MaxInFlight
    /\ requests' = Append(requests, FetchRequest)
    /\ UNCHANGED <<serverVars, handlers, bookingVars, cronVars, statusVars, editorVars,
                   adminLast>>

\* The server handles the k-th fetch, a GET /api/availability, and answers with
\* every row in the shape of the API.
ServerGetAvailability(k) ==
    /\ k \in 1..Len(requests)
    /\ requests[k].url = "GET /api/availability"
    /\ requests[k].answer = "none"
    /\ requests' =
         [requests EXCEPT
            ![k].answer = "ok",
            ![k].response =
                [code |-> 200,
                 availability |-> [d \in DOMAIN availabilityTbl |->
                                      DayResponse(availabilityTbl[d])],
                 errors |-> {}]]
    /\ UNCHANGED <<serverVars, handlers, bookingVars, cronVars, statusVars, editorVars,
                   adminLast>>

\* What the catch of fetchAvailability makes this.availability: the
\* availability of localStorage, or {} when there is none.
FetchFallback ==
    IF storedAvailability # <<>> THEN storedAvailability[1] ELSE EmptyMap

\* fetchAvailability after its fetch.
FetchAvailabilitySettles(k) ==
    /\ k \in 1..Len(requests)
    /\ requests[k].url = "GET /api/availability"
    /\ requests[k].answer # "none"
    /\ adminAvailability' =
         IF requests[k].answer = "ok" THEN requests[k].response.availability
         ELSE FetchFallback
    /\ adminLast' = [op |-> "fetchAvailability", phase |-> "done",
                     ok |-> requests[k].answer = "ok"]
    /\ requests' = RemoveAt(requests, k)
    /\ UNCHANGED <<serverVars, handlers, bookingVars, cronVars, statusVars,
                   isSavingAvailability, storedAvailability>>

NextFetch ==
    \/ \E d \in Dates : ConfirmAddTimeSlot(d, SavingTime)
    \/ \E d \in Dates : SaveDayAvailability(d)
    \/ \E k \in 1..MaxInFlight : ServerSave(k, {})
    \/ \E k \in 1..MaxInFlight : FetchFails(k)
    \/ \E k \in 1..MaxInFlight : SaveAvailabilitySettles(k)
    \/ FetchAvailability
    \/ \E k \in 1..MaxInFlight : ServerGetAvailability(k)
    \/ \E k \in 1..MaxInFlight : FetchAvailabilitySettles(k)

SpecFetch == InitEditor /\ [][NextFetch]_vars

\* ------------------------------------------------ SpecCalendar: formatDate
\* The calendars build each day cell from a Date at local midnight and key it
\* with formatDate. A calendar date is its number of days since the epoch (the
\* string YYYY-MM-DD names it), an instant its number of minutes since the
\* epoch in UTC, and the timezone of the browser the minutes its local time is
\* ahead of UTC.

\* The days renderAvailabilityCalendar shows: for (let i = 0; i < 30; i++).
CalendarDays == 30

\* Offsets of the browser's timezone: Los Angeles, New York, UTC, Paris,
\* Delhi, Tokyo.
TzOffsets == {0 - 480, 0 - 300, 0, 60, 330, 540}

\* new Date(today) with setHours(0, 0, 0, 0) and setDate(...): local midnight
\* of the calendar date day.
LocalMidnight(day, offset) == day * 1440 - offset

\* formatDate(date): date.toISOString().split('T')[0], the calendar date of
\* the instant in UTC.
formatDate(instant) == instant \div 1440

\* renderAvailabilityCalendar() building the cell of day in a browser whose
\* timezone has the offset: dateStr is the key of this.availability the cell
\* reads and the editor writes.
RenderDayCell(day, offset) ==
    /\ adminLast' = [op |-> "renderAvailabilityCalendar", day |-> day,
                     offset |-> offset,
                     dateStr |-> formatDate(LocalMidnight(day, offset))]
    /\ UNCHANGED <<serverVars, handlers, bookingVars, cronVars, statusVars, editorVars,
                   requests>>

NextCalendar ==
    \E day \in 1..CalendarDays, offset \in TzOffsets : RenderDayCell(day, offset)

SpecCalendar == Init /\ [][NextCalendar]_vars

\* ------------------------------------------------ SpecReminder: the cron job
\* cron.schedule('*/5 * * * *', ...): every 5 minutes the job sends a reminder
\* for each accepted appointment that is between 1.5 and 2.5 hours away.

\* The minutes between two runs of the job.
CronPeriod == 5

\* The runs of the job that are followed.
MaxRuns == 100

\* new Date(year, month - 1, day, hours, minutes) of a row, on the clock.
AppointmentMinute(row) ==
    (DateKey(row.date) - DateKey(Today)) * 1440
    + ((TimeKey(row.time) \div 100) * 60) + (TimeKey(row.time) % 100)

\* The row is one the job reminds at the time t: accepted, its date between
\* the date of t and the date of t + 2 hours, and hoursUntil between 1.5 and 2.5.
ReminderDue(row, t) ==
    /\ row.status = "accepted"
    /\ DateKey(row.date) - DateKey(Today) >= t \div 1440
    /\ DateKey(row.date) - DateKey(Today) <= (t + 120) \div 1440
    /\ AppointmentMinute(row) - t >= 90
    /\ AppointmentMinute(row) - t <= 150

\* One run of the job, at the time now; the next is CronPeriod later.
ReminderJob ==
    /\ now < MaxRuns * CronPeriod
    /\ LET due(id) == ReminderDue(appointmentsTbl[id], now)
       IN  reminders' = reminders \o
               SelectSeq([id \in 1..Len(appointmentsTbl) |-> id], due)
    /\ now' = now + CronPeriod
    /\ UNCHANGED <<serverVars, handlers, bookingVars, adminVars>>

\* The booking of BookedTable has been accepted.
InitReminder ==
    /\ availabilityTbl =
         [d \in {"2025-06-10"} |->
            [time_ranges |-> <<"09:00", "09:45">>, is_closed |-> FALSE]]
    /\ appointmentsTbl = UpdateAppointment(BookedTable, 1, "accepted")
    /\ lastReq = NoRequest
    /\ handlers = EmptyMap
    /\ bookingAvailability = EmptyMap
    /\ existingAppointments = <<>>
    /\ slotsResult = NoRequest
    /\ AdminPanelNew
    /\ ReminderJobNew

NextReminder ==
    \/ ReminderJob
    \/ \E status \in Statuses : OtherSessionPatch(status)

SpecReminder == InitReminder /\ [][NextReminder]_vars

\* ------------------------------------------------------------ properties

\* The rows of appts that occupy (date, time).
ActiveAt(appts, date, time) ==
    { i \in 1..Len(appts) :
        appts[i].date = date /\ appts[i].time = time
        /\ appts[i].status \in ActiveStatuses }

IsPost == lastReq.op = "POST /api/appointments"
IsPatch == lastReq.op = "PATCH /api/appointments/:id"

\* The error strings of the handler by the rejection they stand for.
DateUnavailableErrors == {"This date is not available for booking",
                          "This date is closed and not available for booking"}
SlotTakenErrors == {"This time slot is already booked"}
InvalidCustomerErrors == {"Customer information is required"}

\* A body that names a complete customer and a service.
WellFormed(body) ==
    /\ body.customer # NoCustomer
    /\ body.customer.name # "" /\ body.customer.email # ""
    /\ body.customer.phone # ""
    /\ body.service # ""

\* The date has an availability row that is not closed.
DateOpen(avail, date) == date \in DOMAIN avail /\ ~avail[date].is_closed

\* The time is one of the date's slots.
Offered(avail, date, time) ==
    /\ DateOpen(avail, date)
    /\ \E k \in 1..Len(avail[date].time_ranges) : avail[date].time_ranges[k] = time

\* C1: of the POST /api/appointments requests for one (date, time) whose
\* handlers interleave, at most one creates an appointment: the (date, time)
\* never holds two pending or accepted appointments and no two of the requests
\* are answered 201.
C1_ConcurrentPostsBookOnce ==
    /\ \A d \in Dates, t \in Times :
          Cardinality(ActiveAt(appointmentsTbl, d, t)) <= 1
    /\ \A h1, h2 \in HandlerIds :
          ( /\ h1 # h2
            /\ handlers[h1].pc = "done" /\ handlers[h2].pc = "done"
            /\ handlers[h1].body.date = handlers[h2].body.date
            /\ handlers[h1].body.time = handlers[h2].body.time )
          => ~(handlers[h1].code = 201 /\ handlers[h2].code = 201)

IsResolved == slotsResult.op = "getAvailableTimeSlots"

\* C4: getAvailableTimeSlots returns the empty list for a date absent from the
\* availability and for a date whose closed flag is true, whatever its timeSlots
\* and whatever appointments exist.
C4_AbsentOrClosedGivesNoSlots ==
    ( /\ IsResolved
      /\ \/ slotsResult.date \notin DOMAIN bookingAvailability
         \/ bookingAvailability[slotsResult.date].closed )
    => slotsResult.result = <<>>

\* C4 witness: the resolver was asked for a closed date that has slots.
C4_Witness ==
    /\ IsResolved
    /\ slotsResult.date \in DOMAIN bookingAvailability
    /\ bookingAvailability[slotsResult.date].closed
    /\ Len(bookingAvailability[slotsResult.date].timeSlots) = 2
    /\ slotsResult.result = <<>>

\* The positions of the date's timeSlots whose time no pending or accepted
\* appointment of that date holds.
FreePositions(day, existing, date) ==
    { k \in 1..Len(day.timeSlots) :
        \A i \in 1..Len(existing) :
            ~( /\ existing[i].date = date
               /\ existing[i].time = day.timeSlots[k]
               /\ existing[i].status \in ActiveStatuses ) }

\* The j-th smallest member of a set of positions.
NthOf(positions, j) ==
    CHOOSE k \in positions : Cardinality({m \in positions : m < k}) = j - 1

\* C5: for a date that is present and not closed the result is the date's
\* timeSlots without the times held by a pending or accepted appointment of that
\* date, in the same relative order (a time whose appointments are all declined
\* or cancelled stays).
C5_OpenDateSlotsMinusBooked ==
    ( /\ IsResolved
      /\ slotsResult.date \in DOMAIN bookingAvailability
      /\ ~bookingAvailability[slotsResult.date].closed )
    => LET day  == bookingAvailability[slotsResult.date]
           free == FreePositions(day, existingAppointments, slotsResult.date)
       IN  /\ Len(slotsResult.result) = Cardinality(free)
           /\ \A j \in 1..Len(slotsResult.result) :
                 slotsResult.result[j] = day.timeSlots[NthOf(free, j)]

\* C5 witness: on an open date with two slots, the one whose only appointment is
\* declined is returned and the one with an accepted appointment is not.
C5_Witness ==
    /\ IsResolved
    /\ slotsResult.date \in DOMAIN bookingAvailability
    /\ bookingAvailability[slotsResult.date] =
          [timeSlots |-> <<"09:00", "09:45">>, closed |-> FALSE,
           available |-> TRUE]
    /\ existingAppointments =
          << [date |-> slotsResult.date, time |-> "09:00", status |-> "declined"],
             [date |-> slotsResult.date, time |-> "09:45", status |-> "accepted"] >>
    /\ slotsResult.result = <<"09:00">>

\* C6: the list getAvailableTimeSlots returns is in ascending time order for
\* every input, a date whose stored timeSlots are not sorted included.
C6_ResultAscending ==
    IsResolved =>
      \A j, k \in 1..Len(slotsResult.result) :
          j < k => TimeKey(slotsResult.result[j]) <= TimeKey(slotsResult.result[k])

\* C2: in every state reached by non-overlapping POST and PATCH requests, each
\* (date, time) has at most one appointment whose status is pending or accepted.
C2_OneActivePerSlot ==
    \A d \in Dates, t \in Times : Cardinality(ActiveAt(appointmentsTbl, d, t)) <= 1

\* C3: a well-formed booking request for an open date is rejected as slot taken,
\* creating nothing, when a pending or accepted appointment holds its (date,
\* time); and when the time is offered and every appointment at (date, time) is
\* declined or cancelled it is answered 201 and adds exactly one row, pending,
\* for that (date, time). (A step whose response names a POST is the handling of
\* the body in that response; the unprimed tables are those it found.)
C3_SlotTakenOrBooked ==
    [][( /\ lastReq'.op = "POST /api/appointments"
         /\ <<lastReq, appointmentsTbl>>' # <<lastReq, appointmentsTbl>>
         /\ WellFormed(lastReq'.body)
         /\ DateOpen(availabilityTbl, lastReq'.body.date) ) =>
         LET body == lastReq'.body
             n    == Len(appointmentsTbl)
         IN
           /\ ActiveAt(appointmentsTbl, body.date, body.time) # {} =>
                /\ lastReq'.code = 400
                /\ lastReq'.error \in SlotTakenErrors
                /\ appointmentsTbl' = appointmentsTbl
           /\ ( /\ ActiveAt(appointmentsTbl, body.date, body.time) = {}
                /\ Offered(availabilityTbl, body.date, body.time) ) =>
                /\ lastReq'.code = 201
                /\ Len(appointmentsTbl') = n + 1
                /\ SubSeq(appointmentsTbl', 1, n) = appointmentsTbl
                /\ appointmentsTbl'[n + 1].status = "pending"
                /\ appointmentsTbl'[n + 1].date = body.date
                /\ appointmentsTbl'[n + 1].time = body.time
      ]_vars

\* C3 witness: a booking has just been accepted (201, pending) at a (date, time)
\* whose earlier appointment is declined or cancelled.
C3_Witness ==
    /\ IsPost /\ lastReq.code = 201
    /\ appointmentsTbl[lastReq.id].status = "pending"
    /\ \E i \in 1..Len(appointmentsTbl) :
          /\ i # lastReq.id
          /\ appointmentsTbl[i].date = lastReq.body.date
          /\ appointmentsTbl[i].time = lastReq.body.time
          /\ appointmentsTbl[i].status \in {"declined", "cancelled"}

\* C7: a booking request for a date that exists and is not closed, with a time
\* that is not one of the date's timeSlots, is rejected with 400 and creates no
\* appointment.
C7_SlotNotOfferedRejected ==
    ( /\ IsPost
      /\ DateOpen(availabilityTbl, lastReq.body.date)
      /\ ~Offered(availabilityTbl, lastReq.body.date, lastReq.body.time) )
    => (lastReq.code = 400 /\ lastReq.id = 0)

\* C8: the rejection reported is that of the first violated precondition in the
\* order date unavailable, slot not offered, slot taken, invalid customer.
C8_RejectionOrder ==
    IsPost =>
      LET b == lastReq.body IN
        IF ~DateOpen(availabilityTbl, b.date)
        THEN lastReq.code = 400 /\ lastReq.error \in DateUnavailableErrors
        ELSE IF ~Offered(availabilityTbl, b.date, b.time)
        THEN lastReq.code = 400
        ELSE IF lastReq.code = 400 /\ lastReq.error \in InvalidCustomerErrors
        THEN ActiveAt(appointmentsTbl, b.date, b.time) = {}
        ELSE TRUE

\* C9: a status change from declined or cancelled to pending or accepted is
\* rejected and leaves the status of the appointment as it was.
C9_TerminalStatusStays ==
    ( /\ IsPatch
      /\ lastReq.id \in 1..Len(appointmentsTbl)
      /\ lastReq.oldStatus \in {"declined", "cancelled"}
      /\ lastReq.body.status \in ActiveStatuses )
    => ( /\ lastReq.code # 200
         /\ appointmentsTbl[lastReq.id].status = lastReq.oldStatus )

\* C10: a status change to the status the appointment already has reports
\* success, leaves the status as it was and sends no customer notification.
C10_SameStatusIsNoOp ==
    ( /\ IsPatch
      /\ lastReq.id \in 1..Len(appointmentsTbl)
      /\ lastReq.oldStatus = lastReq.body.status )
    => ( /\ lastReq.code = 200
         /\ appointmentsTbl[lastReq.id].status = lastReq.oldStatus
         /\ lastReq.sms = "none" )

\* C20: booking creation and status changes do not depend on the SMS: when the
\* SMS the handler asked for was not sent (sending failed, or the service is not
\* configured), POST /api/appointments still answers 201 and the created row is
\* in the table, and PATCH /api/appointments/:id still answers 200 and the row
\* has the status of the request.
C20_SmsFailureDoesNotFailRequest ==
    ( /\ IsPost \/ IsPatch
      /\ lastReq.sms # "none"
      /\ lastReq.smsOutcome \in {"notConfigured", "failed"} )
    => IF IsPost
       THEN /\ lastReq.code = 201
            /\ lastReq.id \in 1..Len(appointmentsTbl)
            /\ appointmentsTbl[lastReq.id].date = lastReq.body.date
            /\ appointmentsTbl[lastReq.id].time = lastReq.body.time
            /\ appointmentsTbl[lastReq.id].status = "pending"
       ELSE /\ lastReq.code = 200
            /\ lastReq.id \in 1..Len(appointmentsTbl)
            /\ appointmentsTbl[lastReq.id].status = lastReq.body.status

\* C20 witness: a status change to accepted whose SMS failed was answered 200
\* and the row is accepted.
C20_Witness ==
    /\ IsPatch
    /\ lastReq.body.status = "accepted"
    /\ lastReq.sms = "statusUpdate"
    /\ lastReq.smsOutcome = "failed"
    /\ lastReq.code = 200
    /\ appointmentsTbl[lastReq.id].status = "accepted"

IsSave == lastReq.op = "POST /api/availability"

\* The dates of the request whose upsert succeeded.
SavedDates == DOMAIN lastReq.body \ lastReq.failedDates

\* The response names exactly the saved dates, each in the shape of the request,
\* and has one errors entry for each failed date.
SaveEchoesSavedDates ==
    /\ DOMAIN lastReq.availability = SavedDates
    /\ \A d \in SavedDates :
          /\ lastReq.availability[d].timeSlots = lastReq.body[d].timeSlots
          /\ lastReq.availability[d].closed = lastReq.body[d].closed
          /\ availabilityTbl[d] = AvailabilityRow(lastReq.body[d])
    /\ { e.date : e \in lastReq.errors } = lastReq.failedDates
    /\ Cardinality(lastReq.errors) = Cardinality(lastReq.failedDates)

\* C19 as stated: the availability map of the response of POST
\* /api/availability holds exactly the dates whose upsert succeeded; the
\* response is 207 with one errors entry for each failed date when some dates
\* failed while others succeeded, and 200 otherwise.
C19_SaveResponseAsStated ==
    IsSave =>
      /\ SaveEchoesSavedDates
      /\ IF lastReq.failedDates # {} /\ SavedDates # {}
         THEN lastReq.code = 207
         ELSE lastReq.code = 200

\* C19 amended: as stated, except that a request all of whose dates failed (and
\* that has at least one date) is answered 500, not 200; 200 is the answer when
\* no date failed.
C19_SaveResponse ==
    IsSave =>
      /\ SaveEchoesSavedDates
      /\ lastReq.code =
            IF lastReq.failedDates # {} /\ SavedDates # {} THEN 207
            ELSE IF lastReq.failedDates # {} THEN 500
            ELSE 200

\* C19 witness: of a request for two dates one was saved and one failed, and the
\* response is 207 with the saved date and one errors entry.
C19_Witness ==
    /\ IsSave
    /\ lastReq.code = 207
    /\ Cardinality(DOMAIN lastReq.availability) = 1
    /\ Cardinality(lastReq.errors) = 1
    /\ Cardinality(DOMAIN lastReq.body) = 2

IsGetAvailability == lastReq.op = "GET /api/availability"

\* The body of a save made by copying one date's slots to the other dates: at
\* least two dates, all with the same slots, not closed.
CopyShaped(body) ==
    /\ Cardinality(DOMAIN body) >= 2
    /\ \A d, e \in DOMAIN body :
          body[d].timeSlots = body[e].timeSlots /\ ~body[d].closed

\* C15: the dates of one copy are persisted atomically: a GET
\* /api/availability that runs while the save of the copy is being processed
\* sees the dates of the save either all as the request found them or all as
\* the request writes them, never some written and some not.
C15_CopyPersistedAtomically ==
    IsGetAvailability =>
      \A h \in DOMAIN lastReq.during :
        ( /\ lastReq.during[h].pc = "upsert"
          /\ CopyShaped(lastReq.during[h].body) )
        => LET body   == lastReq.during[h].body
               before == lastReq.during[h].before
               seen   == lastReq.availability
           IN  \/ \A d \in DOMAIN body :
                     /\ d \in DOMAIN seen
                     /\ seen[d] = DayResponse(AvailabilityRow(body[d]))
               \/ \A d \in DOMAIN body :
                     /\ (d \in DOMAIN seen) = (d \in DOMAIN before)
                     /\ d \in DOMAIN before => seen[d] = DayResponse(before[d])

\* C11: one admin page never has two status-change requests for the same
\* appointment id outstanding: an accept, decline or cancel for an id that has a
\* status change in flight sends no request.
C11_OneStatusChangeInFlight ==
    \A j, k \in 1..Len(requests) :
        ( /\ j # k
          /\ requests[j].url = "PATCH /api/appointments/:id"
          /\ requests[k].url = "PATCH /api/appointments/:id" )
        => requests[j].id # requests[k].id

\* The times of a list are in ascending order, none twice.
AscendingUnique(timeSlots) ==
    \A i, j \in 1..Len(timeSlots) :
        i < j => TimeKey(timeSlots[i]) < TimeKey(timeSlots[j])

\* The copy of the slots of source to targets is one the spec rejects: the
\* source has no slots, a target is in the past, or a target is the source.
MustRejectCopy(avail, source, targets) ==
    \/ source \notin DOMAIN avail
    \/ Len(avail[source].timeSlots) = 0
    \/ \E d \in targets : DateKey(d) < DateKey(Today)
    \/ source \in targets

\* The record a copy gives a target: the slots of the source, not closed.
IsCopyOf(day, sourceDay) ==
    day.timeSlots = sourceDay.timeSlots /\ day.closed = FALSE

\* C13: a copy that succeeds makes the record of every target exactly the
\* slots of the source with closed false, whatever the target held (its slots
\* are replaced, a closed target is reopened): so it is in the snapshot the
\* copy sends, so it is in the page once the save has answered 200, and copying
\* a second time changes nothing.
C13_CopyReplacesTargets ==
    /\ \A k \in 1..Len(requests) :
          ( /\ requests[k].url = "POST /api/availability"
            /\ requests[k].caller.op = "copyTimeSlots" )
          => \A t \in requests[k].caller.targets :
                /\ t \in DOMAIN requests[k].body
                /\ IsCopyOf(requests[k].body[t],
                            requests[k].body[requests[k].caller.source])
    /\ ( /\ adminLast.op = "copyTimeSlots"
         /\ adminLast.phase = "done"
         /\ adminLast.result.success
         /\ adminLast.code = 200 )
       => \A t \in adminLast.caller.targets :
             /\ t \in DOMAIN adminAvailability
             /\ IsCopyOf(adminAvailability[t],
                         adminAvailability[adminLast.caller.source])
    /\ \A source \in Dates, targets \in SUBSET Dates :
          CopyRejection(adminAvailability, source, targets) = ""
          => LET once == CopySlots(adminAvailability, source, targets)
             IN  /\ \A t \in targets :
                       IsCopyOf(once[t], adminAvailability[source])
                 /\ CopySlots(once, source, targets) = once

\* C13 witness: the copy of the second date to the first has been saved, and
\* the first date has the one slot of the second.
C13_Witness ==
    /\ adminLast.op = "copyTimeSlots"
    /\ adminLast.phase = "done"
    /\ adminLast.code = 200
    /\ adminLast.caller.source = "2025-06-11"
    /\ adminLast.caller.targets = {"2025-06-10"}
    /\ adminAvailability["2025-06-11"].timeSlots = <<"09:00", "09:45">>
    /\ adminAvailability["2025-06-10"] =
          [available |-> TRUE, timeSlots |-> <<"09:00", "09:45">>,
           closed |-> FALSE]

\* C14: a copy that is rejected, because the source has no slots, a target is in
\* the past or a target is the source, changes the availability of no date, in
\* the page or in the table, and sends no request.
C14_RejectedCopyChangesNothing ==
    [][ adminLast'.op = "copyTimeSlots" =>
          \A source \in Dates, targets \in SUBSET EditorDates :
            ( /\ MustRejectCopy(adminAvailability, source, targets)
              /\ CopyTimeSlots(source, targets) )
            => /\ adminAvailability' = adminAvailability
               /\ availabilityTbl' = availabilityTbl
               /\ requests' = requests
               /\ adminLast'.sent = FALSE
      ]_vars

\* C14 witness: a copy whose targets held the source was rejected while the
\* source has slots and no save is under way.
C14_Witness ==
    /\ adminLast.op = "copyTimeSlots"
    /\ adminLast.phase = "call"
    /\ adminLast.rejected = "Cannot copy to the same day."
    /\ adminLast.sent = FALSE
    /\ requests = <<>>
    /\ "2025-06-10" \in DOMAIN adminAvailability

\* C16: whatever confirmAddTimeSlot, removeTimeSlot and copyTimeSlots calls are
\* made on an availability whose lists are ascending without duplicates, the
\* list of every date stays ascending without duplicates, in the page and in
\* the table; and an add of a time the date has is rejected and changes nothing.
C16_SlotsStayAscendingUnique ==
    /\ [](/\ \A d \in DOMAIN adminAvailability :
                AscendingUnique(adminAvailability[d].timeSlots)
          /\ \A d \in DOMAIN availabilityTbl :
                AscendingUnique(availabilityTbl[d].time_ranges))
    /\ [][ adminLast'.op = "confirmAddTimeSlot" =>
            \A d \in Dates, t \in Times :
              ( /\ ConfirmAddTimeSlot(d, t)
                /\ Includes(DayOf(adminAvailability, d).timeSlots, t) )
              => /\ adminAvailability' = adminAvailability
                 /\ adminLast'.rejected
        ]_vars

\* C16 witness: an add has put 09:00 before the 09:45 the first date had when
\* the page loaded it.
C16_Witness ==
    /\ adminLast.op = "confirmAddTimeSlot"
    /\ ~adminLast.rejected
    /\ "2025-06-10" \in DOMAIN availabilityTbl
    /\ availabilityTbl["2025-06-10"].time_ranges = <<"09:45">>
    /\ "2025-06-10" \in DOMAIN adminAvailability
    /\ adminAvailability["2025-06-10"].timeSlots = <<"09:00", "09:45">>

\* C17: a removeTimeSlot that takes the last slot of a date deletes the entry of
\* the date when the date is not closed, and keeps the entry, with no slots and
\* still closed, when the date is closed.
C17_RemoveLastSlot ==
    [][ adminLast'.op = "removeTimeSlot" =>
          \A d \in Dates, t \in Times :
            ( /\ RemoveTimeSlot(d, t)
              /\ d \in DOMAIN adminAvailability
              /\ adminAvailability[d].timeSlots = <<t>> )
            => IF adminAvailability[d].closed
               THEN /\ d \in DOMAIN adminAvailability'
                    /\ adminAvailability'[d].timeSlots = <<>>
                    /\ adminAvailability'[d].closed
               ELSE d \notin DOMAIN adminAvailability'
      ]_vars

\* The POST /api/availability requests of the page the server has not answered.
WritesInFlight ==
    { k \in 1..Len(requests) :
        requests[k].url = "POST /api/availability" /\ requests[k].answer = "none" }

\* C12: at no time are two POST /api/availability requests of one admin
\* session outstanding, whichever path of the session sends them.
C12_OneAvailabilityWriteInFlight ==
    Cardinality(WritesInFlight) <= 1

\* The result is the plain success of saveAvailability.
PlainSuccess(result) ==
    result.success /\ result.message = SaveSucceeded(NoResponse).message

\* C18: when the save of a snapshot succeeded for some dates and failed for
\* others (the answer is 207 and lists the failed dates), the result
\* saveAvailability returns is not a plain success, and the dates that were
\* saved are in the availability of the page.
C18_PartialFailureSurfaced ==
    ( /\ adminLast.op \in {"copyTimeSlots", "saveDayAvailability"}
      /\ adminLast.phase = "done"
      /\ adminLast.code = 207 )
    => /\ ~PlainSuccess(adminLast.result)
       /\ adminLast.result.savedCount = Cardinality(DOMAIN adminAvailability)

\* C29: an add, and a removal that leaves at least one slot, leave the closed
\* flag of the date as it was.
C29_EditKeepsClosed ==
    [][ adminLast'.op \in {"confirmAddTimeSlot", "removeTimeSlot"} =>
          \A d \in Dates :
            ( /\ d \in DOMAIN adminAvailability
              /\ d \in DOMAIN adminAvailability' )
            => adminAvailability'[d].closed = adminAvailability[d].closed
      ]_vars

\* The slots the booking page offers for d once it has fetched the table with
\* GET /api/availability (no appointment booked).
OfferedFromTable(d) ==
    getAvailableTimeSlots(
        [x \in DOMAIN availabilityTbl |-> DayResponse(availabilityTbl[x])],
        <<>>, d)

\* C27: once saveDayAvailability has saved successfully, a date the page holds
\* no entry for (its last slot was removed) is unavailable in the table too:
\* the booking page is offered no slot of it.
C27_DeletedDateUnavailableAfterSave ==
    ( /\ adminLast.op = "saveDayAvailability"
      /\ adminLast.phase = "done"
      /\ adminLast.code = 200
      /\ adminLast.result.success )
    => \A d \in Dates :
          d \notin DOMAIN adminAvailability => OfferedFromTable(d) = <<>>

\* The methods the user starts a save with.
UserSaves == {"copyTimeSlots", "saveDayAvailability"}

\* C21: after a save failed because the server could not be reached (its
\* fetch had no answer), the page sends no request for it on its own: no
\* checkAndSync step posts the availability while the failed save is the last
\* thing the user did.
C21_NoResendWithoutUser ==
    [][ ~( /\ adminLast.op \in UserSaves
           /\ adminLast.phase = "done"
           /\ ~adminLast.result.success
           /\ adminLast.code = NoResponse.code
           /\ CheckAndSync ) ]_vars

\* C28: once a save has succeeded, the snapshot an earlier failed save left in
\* localStorage is not sent to the server again: no checkAndSync step posts a
\* snapshot that would change the table while the last save of the page is a
\* successful one.
C28_CachedSnapshotNotResent ==
    [][ ~( /\ adminLast.op \in UserSaves
           /\ adminLast.phase = "done"
           /\ adminLast.result.success
           /\ storedAvailability # <<>>
           /\ UpsertDates(availabilityTbl, storedAvailability[1],
                          DOMAIN storedAvailability[1]) # availabilityTbl
           /\ CheckAndSync ) ]_vars

\* C25: when the PATCH of updateAppointmentStatus has failed, the method ends
\* with the status of the appointment in the list of the page equal to the
\* status it had before the call, and with the id out of the in-flight set.
C25_FailedUpdateRollsBack ==
    [][ \A k \in 1..MaxInFlight :
          ( /\ UpdateAppointmentStatusSettles(k)
            /\ requests[k].answer = "error" )
          => /\ adminAppointments'[requests[k].id].status = requests[k].oldStatus
             /\ requests[k].id \notin updatingAppointmentIds'
      ]_vars

\* C26: while the id of a status update is in updatingAppointmentIds, no
\* refresh replaces the list of the page, whenever its fetch was started.
C26_NoRefreshDuringUpdate ==
    [][ \A k \in 1..MaxInFlight :
          ( /\ updatingAppointmentIds # {}
            /\ RefreshAppointmentsSettles(k) )
          => adminAppointments' = adminAppointments
      ]_vars

\* No status update of the page is under way.
NoUpdateInFlight ==
    /\ updatingAppointmentIds = {}
    /\ \A k \in 1..Len(requests) :
          requests[k].url # "PATCH /api/appointments/:id"

\* The list of the page is the list of the server: the same appointments, each
\* with the status, date and time of its row.
ListSynced == adminAppointments = appointmentsTbl

LastSnapshotHeld ==
    \/ adminLast = NoRequest
    \/ /\ adminLast.op \in UserSaves
       /\ adminLast.phase = "done"
       /\ adminLast.result.success
    \/ /\ adminLast.op = "fetchAvailability"
       /\ adminLast.ok

\* C22: a fetchAvailability whose fetch fails leaves the page with the
\* snapshot it last fetched or saved with success, not with an empty or an
\* older map.
C22_FailedFetchKeepsSnapshot ==
    [][ \A k \in 1..MaxInFlight :
          ( /\ LastSnapshotHeld
            /\ FetchAvailabilitySettles(k)
            /\ requests[k].answer = "error" )
          => adminAvailability' = adminAvailability
      ]_vars

\* C24: for every day cell and every timezone offset, the key formatDate
\* computes for the cell is the local calendar date of the cell, not the day
\* before or after.
C24_KeyIsLocalDate ==
    adminLast.op = "renderAvailabilityCalendar"
    => adminLast.dateStr = adminLast.day

\* C30: over all runs of the reminder job, each appointment is sent at most one
\* reminder.
C30_OneReminderPerAppointment ==
    \A id \in 1..Len(appointmentsTbl) :
        Cardinality({ k \in 1..Len(reminders) : reminders[k] = id }) <= 1

=============================================================================
